---------------------------- MODULE Spec2Model ----------------------------
(***************************************************************************)
(* SrtFetcher.py: a sequential batch script.  It reads video identifiers   *)
(* from a CSV file (read_youtube_ids), then for each identifier sends one  *)
(* POST request (fetch_srt_data) and pauses between consecutive requests.  *)
(*                                                                         *)
(* Text values that the code takes apart (CSV fields, identifiers) are     *)
(* sequences of one-character strings, so that str.strip() is computed.    *)
(* Response bodies are opaque strings; what json.loads does with each is   *)
(* given by JsonLoads.  The log is the list of records handed to the       *)
(* logger, in order; the DEBUG dumps of request and response (lines        *)
(* 98-123, 129-142) carry no information of their own and are not          *)
(* recorded, and neither is the 150-character response snippet.            *)
(***************************************************************************)
EXTENDS Integers, Sequences, FiniteSets, TLC

VARIABLES
    pc,            \* position of the script
    file,          \* the CSV file named on the command line
    delay,         \* args.delay
    ids,           \* youtube_ids_list
    total,         \* total_ids_count
    index,         \* index of the main loop (0-based), next position to process
    api_response,  \* api_response: the value fetch_srt_data returned last
    log,           \* records emitted through logger, in order
    posts,         \* requests handed to requests.post, in order
    outcomes,      \* what the network did with each request, in order
    sleeps,        \* arguments of the time.sleep calls, in order
    exitStatus     \* exit status of the process; -1 while it runs

vars == <<pc, file, delay, ids, total, index, api_response, log, posts,
          outcomes, sleeps, exitStatus>>

---------------------------------------------------------------------------
(* Bounds of the model *)

\* largest number of data rows (rows after the header) of an input file
MaxRows == 3

---------------------------------------------------------------------------
(* Inputs *)

\* Rows as csv.reader yields them: a blank line is the empty list.
RowKinds ==
    { <<>>,                              \* blank line
      << <<>> >>,                        \* one empty field
      << <<" ">> >>,                     \* a field of white space only
      << <<"a">> >>,
      << <<" ", "b">>, <<"c">> >> }      \* padded identifier, second column

HeaderKinds == { <<>>, << <<"i", "d">> >> }

RECURSIVE RowSeqs(_)
RowSeqs(n) ==
    IF n = 0 THEN { <<>> }
    ELSE LET shorter == RowSeqs(n - 1)
         IN  shorter \cup { Append(s, r) : s \in { t \in shorter : Len(t) = n - 1 },
                                            r \in RowKinds }

\* A file: absent, or the rows the reader yields, after which it either
\* ends (bad = FALSE) or raises (bad = TRUE: decoding or I/O error).
Files ==
    { [exists |-> FALSE, rows |-> <<>>, bad |-> FALSE] }
    \cup { [exists |-> TRUE, rows |-> <<>>, bad |-> b] : b \in BOOLEAN }
    \cup { [exists |-> TRUE, rows |-> <<h>> \o d, bad |-> b] :
              h \in HeaderKinds, d \in RowSeqs(MaxRows), b \in BOOLEAN }

\* --delay takes any integer (type=int)
DelayValues == { -1, 0, 2 }

\* A body that is JSON nested deeper than the interpreter's recursion limit
DeepJson == "[[[[...]]]]"

\* Responses the endpoint may give
Responses ==
    { [status |-> 199, body |-> ""],
      [status |-> 200, body |-> "{}"],
      [status |-> 204, body |-> ""],
      [status |-> 299, body |-> "srt"],
      [status |-> 300, body |-> "srt"],
      [status |-> 500, body |-> "{}"],
      [status |-> 200, body |-> DeepJson],
      [status |-> 500, body |-> DeepJson] }

\* json.loads on the response text
JsonLoads(text) ==
    CASE text = "{}"     -> "value"
      [] text = DeepJson -> "RecursionError"
      [] OTHER           -> "JSONDecodeError"

---------------------------------------------------------------------------
(* Values *)

None == [some |-> FALSE, text |-> ""]
Str(t) == [some |-> TRUE, text |-> t]

Rec(level, msg, id, k, n, status) ==
    [level |-> level, msg |-> msg, id |-> id, k |-> k, n |-> n, status |-> status]

Whitespace == { " " }

RECURSIVE LStrip(_)
LStrip(s) ==
    IF s # <<>> /\ Head(s) \in Whitespace THEN LStrip(Tail(s)) ELSE s

RECURSIVE RStrip(_)
RStrip(s) ==
    IF s # <<>> /\ s[Len(s)] \in Whitespace
    THEN RStrip(SubSeq(s, 1, Len(s) - 1)) ELSE s

\* a strip() left out: the field is taken as it stands
StripNothing(s) == s

\* str.strip()
Strip(s) == RStrip(LStrip(s))

---------------------------------------------------------------------------
(* read_youtube_ids *)

\* the loop over the data rows; i is the data-row number of Head(rows)
RECURSIVE ReadRows(_, _, _, _)
ReadRows(rows, i, acc, lg) ==
    IF rows = <<>> THEN [ids |-> acc, log |-> lg]
    ELSE LET row == Head(rows)
         IN  IF row # <<>>
             THEN LET video_id == Strip(row[1])
                  IN  IF video_id # <<>>
                      THEN ReadRows(Tail(rows), i + 1, Append(acc, video_id),
                               Append(lg, Rec("DEBUG", "read id", video_id, i, 0, 0)))
                      ELSE ReadRows(Tail(rows), i + 1, acc,
                               Append(lg, Rec("WARNING", "id is empty", <<>>, i, 0, 0)))
             ELSE ReadRows(Tail(rows), i + 1, acc,
                      Append(lg, Rec("WARNING", "row is empty", <<>>, i, 0, 0)))

\* truth value of the header row
HeaderPresent(f) == f.rows # <<>> /\ Head(f.rows) # <<>>

read_youtube_ids(f) ==
    LET l0 == << Rec("INFO", "reading file", <<>>, 0, 0, 0) >>
    IN  IF ~f.exists
        THEN [ids |-> <<>>,
              log |-> Append(l0, Rec("ERROR", "file not found", <<>>, 0, 0, 0))]
        ELSE IF f.rows = <<>> /\ f.bad
        THEN [ids |-> <<>>,
              log |-> Append(l0, Rec("ERROR", "read error", <<>>, 0, 0, 0))]
        ELSE IF ~HeaderPresent(f)
        THEN [ids |-> <<>>,
              log |-> Append(l0, Rec("WARNING", "empty or no header", <<>>, 0, 0, 0))]
        ELSE LET r == ReadRows(Tail(f.rows), 1, <<>>,
                          Append(l0, Rec("DEBUG", "skipped header", <<>>, 0, 0, 0)))
             IN  IF f.bad
                 THEN [ids |-> r.ids,
                       log |-> Append(r.log, Rec("ERROR", "read error", <<>>, 0, 0, 0))]
                 ELSE [ids |-> r.ids,
                       log |-> Append(r.log,
                                 Rec("INFO", "read ids", <<>>, 0, Len(r.ids), 0))]

---------------------------------------------------------------------------
(* The script *)

Init ==
    /\ pc = "start"
    /\ file \in Files
    /\ delay \in DelayValues
    /\ ids = <<>>
    /\ total = 0
    /\ index = 0
    /\ api_response = None
    /\ log = <<>>
    /\ posts = <<>>
    /\ outcomes = <<>>
    /\ sleeps = <<>>
    /\ exitStatus = -1

\* an emptiness test that never fires
NothingToDoNever(l) == FALSE

\* "if not youtube_ids_list"
NothingToDo(l) == l = <<>>

\* lines 178-189: banner, read the file, leave at once when there is nothing
Main ==
    /\ pc = "start"
    /\ LET r  == read_youtube_ids(file)
           l1 == << Rec("INFO", "started", <<>>, 0, 0, 0) >> \o r.log
       IN  /\ ids' = r.ids
           /\ IF NothingToDo(r.ids)
              THEN /\ log' = l1 \o << Rec("WARNING", "no ids to process", <<>>, 0, 0, 0),
                                     Rec("INFO", "finished", <<>>, 0, 0, 0) >>
                   /\ total' = total
                   /\ pc' = "done"
                   /\ exitStatus' = 0
              ELSE /\ log' = Append(l1, Rec("INFO", "begin processing", <<>>, 0, Len(r.ids), 0))
                   /\ total' = Len(r.ids)
                   /\ pc' = "loop"
                   /\ exitStatus' = exitStatus
    /\ UNCHANGED <<file, delay, index, api_response, posts, outcomes, sleeps>>

\* the request body built from an identifier
Payload(id) == [youtube_id |-> id, fetch_only |-> "false"]

\* next element of enumerate(youtube_ids_list)
HasNext == index < total

\* lines 191-196 and 83-126: next iteration, fetch_srt_data up to the call of requests.post
Iterate ==
    /\ pc = "loop"
    /\ HasNext
    /\ log' = log \o << Rec("INFO", "main loop", ids[index + 1], index + 1, total, 0),
                        Rec("INFO", "sending request", ids[index + 1], index + 1, total, 0) >>
    /\ posts' = Append(posts, Payload(ids[index + 1]))
    /\ pc' = "post"
    /\ UNCHANGED <<file, delay, ids, total, index, api_response, outcomes, sleeps, exitStatus>>

\* lines 203-204: the loop is exhausted
Finish ==
    /\ pc = "loop"
    /\ ~HasNext
    /\ log' = log \o << Rec("INFO", "all ids processed", <<>>, 0, total, 0),
                        Rec("INFO", "finished", <<>>, 0, 0, 0) >>
    /\ pc' = "done"
    /\ exitStatus' = 0
    /\ UNCHANGED <<file, delay, ids, total, index, api_response, posts, outcomes, sleeps>>

\* "if 200 <= response.status_code < 300"
IsSuccess(s) == 200 <= s /\ s < 300

\* a pause after the last fetch as well
MustSleepAfterLast == index < total /\ delay > 0

\* a pause taken for a delay of zero as well
MustSleepAnyDelay == index < total - 1 /\ delay >= 0

\* "if index < total_ids_count - 1: if args.delay > 0"
MustSleep == index < total - 1 /\ delay > 0

\* fetch_srt_data returns ret after logging entry; lines 196-201 follow
Return(entry, ret) ==
    /\ api_response' = ret
    /\ log' = IF MustSleep
              THEN log \o << entry, Rec("DEBUG", "pausing", <<>>, 0, 0, 0) >>
              ELSE Append(log, entry)
    /\ sleeps' = IF MustSleep THEN Append(sleeps, delay) ELSE sleeps
    /\ index' = index + 1
    /\ pc' = "loop"
    /\ exitStatus' = exitStatus

\* an exception no except clause of fetch_srt_data names leaves the function
\* and, the main block having no handler, ends the process
Uncaught ==
    /\ pc' = "crashed"
    /\ exitStatus' = 1
    /\ UNCHANGED <<api_response, log, sleeps, index>>

\* lines 126-151: requests.post returns a response
FetchResponse ==
    /\ pc = "post"
    /\ \E r \in Responses :
          /\ outcomes' = Append(outcomes, [kind |-> "response", status |-> r.status,
                                           body |-> r.body])
          /\ IF JsonLoads(r.body) = "RecursionError"
             THEN Uncaught
             ELSE IF IsSuccess(r.status)
             THEN Return(Rec("INFO", "success", ids[index + 1], index + 1, total, r.status),
                         Str(r.body))
             ELSE Return(Rec("WARNING", "failed", ids[index + 1], index + 1, total, r.status),
                         None)
    /\ UNCHANGED <<file, delay, ids, total, posts>>

\* lines 153-154, 159
FetchTimeout ==
    /\ pc = "post"
    /\ outcomes' = Append(outcomes, [kind |-> "Timeout", status |-> 0, body |-> ""])
    /\ Return(Rec("ERROR", "timed out", ids[index + 1], index + 1, total, 0), None)
    /\ UNCHANGED <<file, delay, ids, total, posts>>

\* lines 155-156, 159
FetchConnectionError ==
    /\ pc = "post"
    /\ outcomes' = Append(outcomes, [kind |-> "ConnectionError", status |-> 0, body |-> ""])
    /\ Return(Rec("ERROR", "connection failed", ids[index + 1], index + 1, total, 0), None)
    /\ UNCHANGED <<file, delay, ids, total, posts>>

\* lines 157-159
FetchRequestException ==
    /\ pc = "post"
    /\ outcomes' = Append(outcomes, [kind |-> "RequestException", status |-> 0, body |-> ""])
    /\ Return(Rec("ERROR", "request error", ids[index + 1], index + 1, total, 0), None)
    /\ UNCHANGED <<file, delay, ids, total, posts>>

Next ==
    \/ Main
    \/ Iterate
    \/ Finish
    \/ FetchResponse
    \/ FetchTimeout
    \/ FetchConnectionError
    \/ FetchRequestException

Spec == Init /\ [][Next]_vars

---------------------------------------------------------------------------
(* Vocabulary of the properties *)

Terminated == pc \in {"done", "crashed"}

IsCall(e) == e.msg = "sending request"
IsResult(e) == e.msg \in {"success", "failed", "timed out", "connection failed",
                          "request error"}
IsSkipWarning(e) == e.level = "WARNING" /\ e.msg \in {"id is empty", "row is empty"}

\* the invocations of fetch_srt_data, and the results it reported, in order
Calls == SelectSeq(log, IsCall)
Results == SelectSeq(log, IsResult)

Logged(level, msg) == \E i \in 1..Len(log) : log[i].level = level /\ log[i].msg = msg

Min(a, b) == IF a < b THEN a ELSE b

\* a failure of the network or of the remote end, as opposed to a 2xx response
NetworkFailure(o) ==
    \/ o.kind \in {"Timeout", "ConnectionError", "RequestException"}
    \/ o.kind = "response" /\ ~(200 <= o.status /\ o.status < 300)

\* the log record that reports outcome o of fetch k
ResultOf(o, k) ==
    CASE o.kind = "Timeout"          -> Rec("ERROR", "timed out", ids[k], k, Len(ids), 0)
      [] o.kind = "ConnectionError"  -> Rec("ERROR", "connection failed", ids[k], k, Len(ids), 0)
      [] o.kind = "RequestException" -> Rec("ERROR", "request error", ids[k], k, Len(ids), 0)
      [] OTHER -> IF 200 <= o.status /\ o.status < 300
                  THEN Rec("INFO", "success", ids[k], k, Len(ids), o.status)
                  ELSE Rec("WARNING", "failed", ids[k], k, Len(ids), o.status)

---------------------------------------------------------------------------
(* C1: for a non-empty list of n identifiers the run invokes fetch_srt_data *)
(* exactly n times, the k-th invocation for the k-th identifier with        *)
(* current_index = k and total_count = n, and each request is sent only     *)
(* after the previous one was answered.                                     *)
C1_EveryIdFetchedInOrder ==
    /\ Len(posts) <= Len(outcomes) + 1
    /\ (Terminated /\ ids # <<>>) =>
          /\ Len(Calls) = Len(ids)
          /\ \A k \in 1..Len(ids) :
                Calls[k].id = ids[k] /\ Calls[k].k = k /\ Calls[k].n = Len(ids)

(* C2: whatever network failure fetch k < n ends with (timeout, connection *)
(* error, other request fault, non-2xx status), the run goes on to fetch   *)
(* k+1 and reaches the completion notice.                                  *)
C2_NetworkFailureNeverAborts ==
    Terminated =>
        \A k \in 1..Len(outcomes) :
            (k < Len(ids) /\ NetworkFailure(outcomes[k])) =>
                /\ Len(posts) >= k + 1
                /\ Logged("INFO", "all ids processed")

(* C3: a received response is classified by its status alone: 2xx gives    *)
(* the raw body as the result (an empty body too, which differs from the   *)
(* failure value), any other status gives a logged HTTP failure and the    *)
(* failure value, and no fault escapes.                                    *)
C3_ClassifiedByStatusAlone ==
    (outcomes # <<>> /\ outcomes[Len(outcomes)].kind = "response") =>
        LET o == outcomes[Len(outcomes)]
            k == Len(outcomes)
        IN  /\ pc # "crashed"
            /\ Len(Results) = k
            /\ Results[k] = ResultOf(o, k)
            /\ api_response = IF 200 <= o.status /\ o.status < 300
                              THEN Str(o.body) ELSE None
            /\ Str(o.body) # None

(* C4: every exceptional condition inside one call of fetch_srt_data is    *)
(* caught and reported as a result, none reaches the caller, and each call *)
(* makes exactly one network attempt.                                      *)
C4_EveryFaultCaught ==
    /\ pc # "crashed"
    /\ Len(posts) = Len(Calls)
    /\ Len(Results) = Len(outcomes)
    /\ \A k \in 1..Len(outcomes) : Results[k] = ResultOf(outcomes[k], k)

\* tallies of the results reported in the log
Succeeded == Len(SelectSeq(Results, LAMBDA e : e.msg = "success"))
Failed == Len(Results) - Succeeded

(* C5: after the loop over n identifiers the run yields a Summary whose    *)
(* succeeded and failed fields count the fetches of each kind and add up   *)
(* to n.  The only result the main block holds after the loop is           *)
(* api_response.                                                           *)
C5_SummaryReturned ==
    (pc = "done" /\ ids # <<>>) =>
        /\ api_response = [succeeded |-> Succeeded, failed |-> Failed]
        /\ Succeeded + Failed = Len(ids)

(* C6 as stated: every run over n >= 1 identifiers calls time.sleep        *)
(* exactly n - 1 times.                                                    *)
C6_AlwaysNMinusOneSleeps ==
    (pc = "done" /\ Len(ids) >= 1) => Len(sleeps) = Len(ids) - 1

(* C6 as amended: with a delay setting > 0, one time.sleep(delay) follows  *)
(* each fetch that returned except the n-th, so n - 1 calls once the loop  *)
(* is over; with a delay setting <= 0 time.sleep is never called.          *)
C6_SleepsBetweenFetches ==
    Len(ids) >= 1 =>
        /\ Len(sleeps) = IF delay > 0 THEN Min(Len(Results), Len(ids) - 1) ELSE 0
        /\ \A i \in 1..Len(sleeps) : sleeps[i] = delay
        /\ (pc = "done" /\ delay > 0) => Len(sleeps) = Len(ids) - 1

C6_Witness ==
    pc = "done" /\ delay > 0 /\ Len(ids) = 3 /\ Len(sleeps) = 2

(* C7: with a delay setting of 0 time.sleep is never called and nothing    *)
(* comes between one fetch and the next.                                   *)
C7_NoSleepWhenDelayZero ==
    delay = 0 =>
        /\ sleeps = <<>>
        /\ \A i \in 1..Len(log) :
              IsResult(log[i]) /\ i < Len(log) =>
                  log[i + 1].msg \in {"main loop", "all ids processed"}

C7_Witness ==
    delay = 0 /\ pc = "done" /\ Len(ids) = 3 /\ Len(Results) = 3

(* C8: when the identifier list is empty the run logs a warning and sends  *)
(* no request and makes no pause.                                          *)
C8_EmptyListNothingSent ==
    (pc # "start" /\ ids = <<>>) =>
        /\ pc = "done"
        /\ Logged("WARNING", "no ids to process")
        /\ posts = <<>>
        /\ outcomes = <<>>
        /\ sleeps = <<>>

C8_Witness ==
    /\ pc = "done" /\ ids = <<>>
    /\ file.exists /\ ~file.bad /\ Len(file.rows) = 3 /\ Head(file.rows) # <<>>

\* t is s without its leading and trailing white space
IsStripOf(t, s) ==
    /\ t = <<>> \/ (t[1] \notin Whitespace /\ t[Len(t)] \notin Whitespace)
    /\ \E i \in 0..Len(s) :
          /\ i + Len(t) <= Len(s)
          /\ SubSeq(s, i + 1, i + Len(t)) = t
          /\ \A j \in (1..i) \cup ((i + Len(t) + 1)..Len(s)) : s[j] \in Whitespace

DataRows == IF HeaderPresent(file) THEN Tail(file.rows) ELSE <<>>
SkipWarnings == SelectSeq(log, IsSkipWarning)

(* C9 as stated: the header row is skipped and the identifiers returned    *)
(* are exactly the non-empty first-column fields of the data rows, in      *)
(* order; each other data row costs one warning.                           *)
C9_NonEmptyFirstColumns ==
    (pc # "start" /\ file.exists /\ ~file.bad /\ HeaderPresent(file)) =>
        LET data == Tail(file.rows)
            kept == SelectSeq(data, LAMBDA r : r # <<>> /\ r[1] # <<>>)
        IN  /\ ids = [i \in 1..Len(kept) |-> kept[i][1]]
            /\ Len(SkipWarnings) = Len(data) - Len(kept)

(* C9 as amended: when the first row is not blank it is skipped, and the   *)
(* identifiers returned are the first-column fields of the data rows the   *)
(* reader delivered, stripped of surrounding white space, that are not     *)
(* empty after stripping, in order; each other data row costs one warning. *)
(* A file without rows or with a blank first row gives the empty list.     *)
C9_StrippedFirstColumns ==
    pc # "start" =>
        LET kept == SelectSeq(DataRows,
                        LAMBDA r : r # <<>> /\ \E j \in 1..Len(r[1]) :
                                                  r[1][j] \notin Whitespace)
        IN  /\ Len(ids) = Len(kept)
            /\ \A i \in 1..Len(kept) : IsStripOf(ids[i], kept[i][1])
            /\ Len(SkipWarnings) = Len(DataRows) - Len(kept)

C9_Witness ==
    /\ pc # "start"
    /\ file.rows = << << <<"i", "d">> >>, << <<"a">> >>, << <<>> >>, <<>> >>
    /\ ids = << <<"a">> >>
    /\ Len(SkipWarnings) = 2

(* C10: a missing or unreadable input file is the only fatal condition: it *)
(* is logged as an error, no request is sent, and the exit status is       *)
(* non-zero; every other run ends with status zero.                        *)
C10_OnlyInputFaultFatal ==
    Terminated =>
        IF ~file.exists \/ file.bad
        THEN /\ \E i \in 1..Len(log) : log[i].level = "ERROR"
             /\ posts = <<>>
             /\ exitStatus # 0
        ELSE exitStatus = 0

=============================================================================
